---------------------------- MODULE Spec2Model ----------------------------
(***************************************************************************)
(* Model of the Cloudflare Worker of src/src/index.js: the fetch handler,  *)
(* its cache gate (getCacheKey, getFromCache, storeInCache), its content   *)
(* fetcher (generateResponse) and the platform services it talks to (the   *)
(* edge cache caches.default, the R2 bucket env.FWM_BUCKER, ctx.waitUntil).*)
(*                                                                         *)
(* Strings are sequences of lexical tokens ("/" is a token, an extension   *)
(* such as ".ts" is a token), so that split, join, startsWith, endsWith    *)
(* and concatenation are computed and not assumed.  An optional value (a   *)
(* header that may be absent, a null result) is the empty set or a         *)
(* singleton.  A body is a sequence of bytes; the empty sequence is the    *)
(* null body.                                                              *)
(***************************************************************************)
EXTENDS Integers, Sequences, FiniteSets, TLC

\* Number of invocations of the fetch handler (requests), which may overlap.
NumReq == 2

Reqs == 1..NumReq

---------------------------------------------------------------------------
\* Optional values.

None == {}

Some(v) == {v}

Has(o) == o # {}

Get(o) == CHOOSE v \in o : TRUE

---------------------------------------------------------------------------
\* String helpers.

\* String.prototype.endsWith
EndsWith(s, suffix) ==
    /\ Len(suffix) <= Len(s)
    /\ SubSeq(s, Len(s) - Len(suffix) + 1, Len(s)) = suffix

\* String.prototype.startsWith
StartsWith(s, prefix) ==
    /\ Len(prefix) <= Len(s)
    /\ SubSeq(s, 1, Len(prefix)) = prefix

RECURSIVE Split(_)
\* url.pathname.split('/'): the segments between the "/" tokens, the empty
\* segment before a leading "/" included.
Split(s) ==
    IF \A i \in 1..Len(s) : s[i] # "/"
    THEN <<s>>
    ELSE LET i == CHOOSE k \in 1..Len(s) :
                      s[k] = "/" /\ \A j \in 1..(k - 1) : s[j] # "/"
         IN  <<SubSeq(s, 1, i - 1)>> \o Split(SubSeq(s, i + 1, Len(s)))

RECURSIVE Join(_)
\* Array.prototype.join('/')
Join(segs) ==
    IF Len(segs) = 0 THEN <<>>
    ELSE IF Len(segs) = 1 THEN segs[1]
    ELSE segs[1] \o <<"/">> \o Join(Tail(segs))

---------------------------------------------------------------------------
\* Configuration (src/src/config.js).

prefixFolder == {<<"dldzkdpsxmdnjrtm">>, <<"wm-contents">>}

CacheEnabled == TRUE

TTL == 3600

cacheableExtensions == {<<".m3u8">>, <<".ts">>, <<".mp4">>, <<".m4s">>, <<".mpd">>}

---------------------------------------------------------------------------
\* The object store (R2 bucket env.FWM_BUCKER): its content does not change.

Object1 ==
    [body |-> <<"b0", "b1", "b2">>, httpEtag |-> "e1",
     httpMetadata |-> [contentType |-> Some("application/octet-stream"),
                       cacheControl |-> Some(<<"no-store", 0>>)]]

Object2 ==
    [body |-> <<"c0", "c1">>, httpEtag |-> "e2",
     httpMetadata |-> [contentType |-> None, cacheControl |-> None]]

Object3 ==
    [body |-> <<"k0", "k1">>, httpEtag |-> "e3",
     httpMetadata |-> [contentType |-> Some("application/octet-stream"),
                       cacheControl |-> Some(<<"private, max-age=", 60>>)]]

Key1 == <<"wm-contents", "/", "v", "/", "s", ".ts">>

Key2 == <<"wm-contents", "/", "v", "/", "b.", "s", ".ts">>

Key3 == <<"wm-contents", "/", "v", "/", "k", ".key">>

\* The object stored under a key, None when there is none.
Bucket(key) ==
    IF key = Key1 THEN Some(Object1)
    ELSE IF key = Key2 THEN Some(Object2)
    ELSE IF key = Key3 THEN Some(Object3)
    ELSE None

---------------------------------------------------------------------------
\* HTTP messages.

\* The response headers the worker reads or writes; None is an absent header.
NoHeaders ==
    [etag |-> None, contentType |-> None, acao |-> None, cacheControl |-> None,
     contentRange |-> None, xCacheStatus |-> None, allow |-> None]

\* new Response(body, {status, headers})
Response(body, status, headers) ==
    [status |-> status, headers |-> headers, body |-> body]

Origin1 == <<"https://", "a.example">>

Origin2 == <<"https://", "b.example">>

\* The revoke marker segment (spec section 4.4: a designated segment,
\* recognised by exact match).
RevokeMarker == <<"revoke_token">>

\* The request URLs: an origin and a pathname.
Url(origin, pathname) == [origin |-> origin, pathname |-> pathname]

\* AES route, token of variant A: resolves to /wm-contents/v/s.ts
UrlAes ==
    Url(Origin1, <<"/", "wm-contents", "/", "tokA", "/", "v", "/", "s", ".ts">>)

\* WMT route, another token of variant A: resolves to the same path
UrlWmt ==
    Url(Origin1, <<"/", "wmt:", "jwtA", "/", "wm-contents", "/", "v", "/", "s", ".ts">>)

\* The same content asked of another origin
UrlOtherOrigin ==
    Url(Origin2, <<"/", "wm-contents", "/", "tokA", "/", "v", "/", "s", ".ts">>)

\* AES route, token of variant B: resolves to /wm-contents/v/b.s.ts
UrlVariantB ==
    Url(Origin1, <<"/", "wm-contents", "/", "tokB", "/", "v", "/", "s", ".ts">>)

\* AES route with a revoke marker segment
UrlRevoked ==
    Url(Origin1, <<"/", "wm-contents", "/", "revoke_token", "/", "tokA", "/",
                   "v", "/", "s", ".ts">>)

\* AES route, expired token
UrlExpired ==
    Url(Origin1, <<"/", "wm-contents", "/", "tokOld", "/", "v", "/", "s", ".ts">>)

\* A first segment that is no route
UrlUnrouted == Url(Origin1, <<"/", "other", "/", "v", "/", "s", ".ts">>)

\* A file whose extension is not cacheable
UrlKey ==
    Url(Origin1, <<"/", "wm-contents", "/", "tokA", "/", "v", "/", "k", ".key">>)

\* A cacheable path the bucket holds no object for
UrlGone ==
    Url(Origin1, <<"/", "wm-contents", "/", "tokA", "/", "v", "/", "gone", ".ts">>)

Request(method, url, range, ifNoneMatch) ==
    [method |-> method, url |-> url,
     headers |-> [range |-> range, ifNoneMatch |-> ifNoneMatch]]

RangeBytes == Some(<<"bytes=", 1, "-", 2>>)

RangeEmpty == Some(<<>>)

\* The requests a client may send, in a fixed order: the main URL with each
\* method and header of interest, and every other URL at least once.
RequestList ==
    <<Request("GET", UrlAes, None, None),
      Request("HEAD", UrlAes, None, None),
      Request("GET", UrlAes, None, Some("e1")),
      Request("GET", UrlAes, RangeBytes, None),
      Request("HEAD", UrlAes, RangeBytes, None),
      Request("GET", UrlAes, RangeEmpty, None),
      Request("POST", UrlAes, None, None),
      Request("GET", UrlWmt, None, None),
      Request("GET", UrlOtherOrigin, None, None),
      Request("GET", UrlVariantB, None, None),
      Request("GET", UrlRevoked, None, None),
      Request("GET", UrlExpired, None, None),
      Request("HEAD", UrlExpired, None, None),
      Request("GET", UrlUnrouted, None, None),
      Request("HEAD", UrlUnrouted, None, None),
      Request("GET", UrlKey, None, None),
      Request("GET", UrlGone, None, None)>>

Requests == {RequestList[i] : i \in 1..Len(RequestList)}

\* The place of a request in RequestList, 0 for the slot of a handler that
\* is not running.
RequestIndex(request) ==
    IF request \in Requests
    THEN CHOOSE i \in 1..Len(RequestList) : RequestList[i] = request
    ELSE 0

\* The value of the request slot of a handler that is not running.
NoRequest ==
    [method |-> "", url |-> [origin |-> <<>>, pathname |-> <<>>],
     headers |-> [range |-> None, ifNoneMatch |-> None]]

---------------------------------------------------------------------------
\* The pure functions of src/src/index.js.

\* A checkWatermarkPath that takes any folder for a configured one.
checkWatermarkPath_AnyFolder(reqPrefixFolder) ==
    reqPrefixFolder \in prefixFolder \/ Len(reqPrefixFolder) > 0

\* checkWatermarkPath: config.prefixFolder is an array.
checkWatermarkPath(reqPrefixFolder) == reqPrefixFolder \in prefixFolder

getContentType(path) ==
    IF EndsWith(path, <<".m3u8">>) THEN Some("application/vnd.apple.mpegurl")
    ELSE IF EndsWith(path, <<".ts">>) THEN Some("video/mp2t")
    ELSE IF EndsWith(path, <<".mp4">>) THEN Some("video/mp4")
    ELSE IF EndsWith(path, <<".m4s">>) THEN Some("video/iso.segment")
    ELSE IF EndsWith(path, <<".mpd">>) THEN Some("application/dash+xml")
    ELSE None

isCacheable(path) == \E ext \in cacheableExtensions : EndsWith(path, ext)

\* A getCacheKey that keys by the raw request URL.
getCacheKey_RawUrl(request, finalRequestPath) ==
    request.url.origin \o request.url.pathname

getCacheKey(request, finalRequestPath) == request.url.origin \o finalRequestPath

\* new Request(cacheKey, { method: 'GET' }), as getFromCache and storeInCache
\* build it.
CacheRequest(cacheKey) == [method |-> "GET", url |-> cacheKey]

\* A shouldCache that forgets the Range header.
shouldCache_IgnoresRange(request, finalRequestPath) ==
    isCacheable(finalRequestPath)

\* const shouldCache = isCacheable(finalRequestPath) && !hasRangeHeader
shouldCache(request, finalRequestPath) ==
    isCacheable(finalRequestPath) /\ ~Has(request.headers.range)

\* A getFromCache whose test of CACHE_CONFIG.enabled is inverted: it never
\* looks into the cache.
getFromCache_EnabledInverted(cacheKey, entries) ==
    IF CacheEnabled THEN None
    ELSE IF CacheRequest(cacheKey) \in DOMAIN entries
         THEN Some(entries[CacheRequest(cacheKey)].response)
         ELSE None

\* getFromCache: the entry cache.match finds for the key, None on a miss.
getFromCache(cacheKey, entries) ==
    IF ~CacheEnabled THEN None
    ELSE IF CacheRequest(cacheKey) \in DOMAIN entries
         THEN Some(entries[CacheRequest(cacheKey)].response)
         ELSE None

\* A storeInCache that copies the headers and leaves Cache-Control as the
\* object store set it.
storeInCache_KeepsCacheControl(cacheKey, response) ==
    IF ~CacheEnabled THEN None
    ELSE Some([request |-> CacheRequest(cacheKey),
               response |-> Response(response.body, response.status,
                                     response.headers)])

\* storeInCache: the (request, response) pair handed to cache.put, None when
\* the cache is disabled.  The headers are copied and Cache-Control is set.
storeInCache(cacheKey, response) ==
    IF ~CacheEnabled THEN None
    ELSE Some([request |-> CacheRequest(cacheKey),
               response |-> Response(response.body, response.status,
                    [response.headers EXCEPT
                        !.cacheControl = Some(<<"public, max-age=", TTL>>)])])

---------------------------------------------------------------------------
\* The object store's get (env.FWM_BUCKER.get).

Min(a, b) == IF a < b THEN a ELSE b

\* A JavaScript string is truthy when it is there and not empty.
Truthy(header) == Has(header) /\ Len(Get(header)) > 0

\* R2 get options that always carry the range.
r2Options_AlwaysRange(reqHeaders) ==
    [onlyIf |-> reqHeaders, range |-> Some(reqHeaders)]

\* The R2 get options generateResponse builds.
r2Options(reqHeaders) ==
    [onlyIf |-> reqHeaders,
     range |-> IF Truthy(reqHeaders.range) THEN Some(reqHeaders) ELSE None]

\* get(key, options): None for a missing object; an object without a body
\* when the onlyIf condition fails; the requested range when options.range
\* is given and holds a Range header (the whole body as a range when it
\* holds none); else the whole body, on which the store reports a range or
\* not (reportsRange).
R2Get(key, options, reportsRange) ==
    IF ~Has(Bucket(key)) THEN None
    ELSE LET obj  == Get(Bucket(key))
             size == Len(obj.body)
             meta == [size |-> size, httpEtag |-> obj.httpEtag,
                      httpMetadata |-> obj.httpMetadata]
             inm  == options.onlyIf.ifNoneMatch
         IN  IF Has(inm) /\ Get(inm) = obj.httpEtag
             THEN Some([hasBody |-> FALSE, body |-> <<>>, range |-> None,
                        meta |-> meta])
             ELSE IF Has(options.range) /\ Truthy(Get(options.range).range)
             THEN LET hdr    == Get(Get(options.range).range)
                      offset == Min(hdr[2], size - 1)
                      last   == Min(hdr[4], size - 1)
                  IN  Some([hasBody |-> TRUE,
                            body |-> SubSeq(obj.body, offset + 1, last + 1),
                            range |-> Some([offset |-> offset,
                                            length |-> last - offset + 1]),
                            meta |-> meta])
             ELSE Some([hasBody |-> TRUE, body |-> obj.body,
                        range |-> IF reportsRange \/ Has(options.range)
                                  THEN Some([offset |-> 0, length |-> size])
                                  ELSE None,
                        meta |-> meta])

\* The get of generateResponse as the operation trace names it: with or
\* without the range option.
GetOp(reqHeaders) ==
    IF Has(r2Options(reqHeaders).range) THEN "getRange" ELSE "get"

\* generateResponse, given what the store's get returned.
generateResponse(finalRequestPath, reqHeaders, reportsRange) ==
    LET key         == Tail(finalRequestPath)
        rangeHeader == reqHeaders.range
        got         == R2Get(key, r2Options(reqHeaders), reportsRange)
    IN  IF ~Has(got)
        THEN Response(<<"Object Not Found">>, 404, NoHeaders)
        ELSE LET object == Get(got)
                 \* object.writeHttpMetadata(headers); etag; content-type; CORS
                 written == [NoHeaders EXCEPT
                     !.contentType = object.meta.httpMetadata.contentType,
                     !.cacheControl = object.meta.httpMetadata.cacheControl,
                     !.etag = Some(object.meta.httpEtag)]
                 typed == IF Has(getContentType(key))
                          THEN [written EXCEPT !.contentType = getContentType(key)]
                          ELSE written
                 headers == [typed EXCEPT !.acao = Some("*")]
             IN  IF ~object.hasBody
                 THEN Response(<<>>, 304, headers)
                 ELSE LET status == IF Truthy(rangeHeader) /\ Has(object.range)
                                    THEN 206 ELSE 200
                          ranged == IF Has(object.range)
                                    THEN [headers EXCEPT !.contentRange =
                                        LET rg == Get(object.range)
                                        IN  Some(<<"bytes ", rg.offset, "-",
                                                   rg.offset + rg.length - 1,
                                                   "/", object.meta.size>>)]
                                    ELSE headers
                      IN  Response(object.body, status, ranged)

---------------------------------------------------------------------------
\* The responses the fetch handler builds.

\* The body a response is returned with: null for a HEAD request.
HeadBody(request, body) == IF request.method = "HEAD" THEN <<>> ELSE body

\* A cache hit built from the entry's body alone: new Response(body).
HitResponse_DropsHeaders(request, cachedResponse) ==
    Response(HeadBody(request, cachedResponse.body), 200,
             [NoHeaders EXCEPT !.xCacheStatus = Some("HIT")])

\* A cache hit: the entry, X-Cache-Status: HIT set.
HitResponse(request, cachedResponse) ==
    Response(HeadBody(request, cachedResponse.body), cachedResponse.status,
             [cachedResponse.headers EXCEPT !.xCacheStatus = Some("HIT")])

\* A stored miss: the fetched response, X-Cache-Status: MISS set.
MissResponse(request, response) ==
    Response(HeadBody(request, response.body), response.status,
             [response.headers EXCEPT !.xCacheStatus = Some("MISS")])

\* A call of storeInCache after X-Cache-Status was set on the fetched
\* response itself.
ResponseToStore_WithHeader(request, response) ==
    Response(response.body, response.status,
             [response.headers EXCEPT !.xCacheStatus = Some("MISS")])

\* A call of storeInCache that passes the response built for the client.
ResponseToStore_Returned(request, response) == MissResponse(request, response)

\* storeInCache(cacheKey, response, ctx): the response passed is the fetched
\* one, not responseWithHeader nor the bodiless HEAD response.
ResponseToStore(request, response) == response

\* Any other fetched response.
PlainResponse(request, response) ==
    Response(HeadBody(request, response.body), response.status, response.headers)

\* return new Response("Not Found", { status: 404 })
NotFoundResponse == Response(<<"Not Found">>, 404, NoHeaders)

\* A catch block that answers a fixed text.
ErrorResponse_NoMessage(message) == Response(<<"Bad Request">>, 400, NoHeaders)

\* catch (e): new Response(e.message, { status: 400 })
ErrorResponse(message) == Response(<<message>>, 400, NoHeaders)

\* Reject non-GET/HEAD requests.
MethodNotAllowedResponse ==
    Response(<<"Method Not Allowed">>, 405,
             [NoHeaders EXCEPT !.allow = Some("GET, HEAD")])

\* request.method === 'GET' || 'HEAD': always true.
IsGetOrHead_AlwaysTrue(method) == method = "GET" \/ TRUE

\* request.method === 'GET' || request.method === 'HEAD'
IsGetOrHead(method) == method = "GET" \/ method = "HEAD"

---------------------------------------------------------------------------
\* Token verification and path resolution (wmt/doveRunnerAes.js,
\* wmt/akamaiWmt.js, watermark-util/wmUtil.js; spec sections 4.2 to 4.4).
\* A verifier returns a resolved path or throws an error with a message.

Resolved(p) == [ok |-> TRUE, path |-> p, message |-> ""]

Throws(message) == [ok |-> FALSE, path |-> <<>>, message |-> message]

\* wmUtil.removeRevokeToken: the revoke marker segments are removed, and
\* whether there was one is reported.
wmUtil_removeRevokeToken(arrUri) ==
    [modifiedArrUri |-> SelectSeq(arrUri, LAMBDA seg : seg # RevokeMarker),
     hasRevokeToken |-> \E i \in 1..Len(arrUri) : arrUri[i] = RevokeMarker]

\* What decrypting an AES token yields: the variant it selects, or an error.
AesDecode(token) ==
    IF token = <<"tokA">> THEN [ok |-> TRUE, variant |-> "A", message |-> ""]
    ELSE IF token = <<"tokB">> THEN [ok |-> TRUE, variant |-> "B", message |-> ""]
    ELSE IF token = <<"tokOld">>
    THEN [ok |-> FALSE, variant |-> "", message |-> "TokenExpired"]
    ELSE [ok |-> FALSE, variant |-> "", message |-> "TokenDecodeError"]

\* What verifying a WMT (JWT) token yields.
WmtVerify(token) ==
    IF token = <<"jwtA">> THEN [ok |-> TRUE, variant |-> "A", message |-> ""]
    ELSE IF token = <<"jwtB">> THEN [ok |-> TRUE, variant |-> "B", message |-> ""]
    ELSE [ok |-> FALSE, variant |-> "", message |-> "TokenDecodeError"]

\* The unlabeled_a_variant convention (config.type): the B copy of a file
\* has "b." before its name.
VariantFile(file, variant) == IF variant = "B" THEN <<"b.">> \o file ELSE file

\* The resolved path: a leading "/", the segments, the file's variant.
ResolvedPath(segs, variant) ==
    <<"/">> \o Join(SubSeq(segs, 1, Len(segs) - 1)
                    \o <<VariantFile(segs[Len(segs)], variant)>>)

\* doveRunnerAes.getContentUrl: arrUri is ["", prefixFolder, token, ...media].
doveRunnerAes_getContentUrl(requestPath, arrUri, reqPrefixFolder, hasRevokeToken) ==
    IF hasRevokeToken THEN Throws("TokenRevoked")
    ELSE IF Len(arrUri) < 4 THEN Throws("TokenDecodeError")
    ELSE LET decoded == AesDecode(arrUri[3])
         IN  IF ~decoded.ok THEN Throws(decoded.message)
             ELSE Resolved(ResolvedPath(
                      <<reqPrefixFolder>> \o SubSeq(arrUri, 4, Len(arrUri)),
                      decoded.variant))

\* akamaiWmt.getContentUrl: arrUri is ["", "wmt:<token>", ...media].
akamaiWmt_getContentUrl(pathname, arrUri) ==
    IF Len(arrUri) < 3 THEN Throws("TokenDecodeError")
    ELSE LET verified == WmtVerify(Tail(arrUri[2]))
         IN  IF ~verified.ok THEN Throws(verified.message)
             ELSE Resolved(ResolvedPath(SubSeq(arrUri, 3, Len(arrUri)),
                                        verified.variant))

---------------------------------------------------------------------------
\* The first part of the fetch handler: classification and verification.

\* A classification that, when the AES verifier fails, goes on with the
\* requested path, its token segment removed.
Classify_FailOpen(request) ==
    LET arrUri == Split(request.url.pathname)
        reqPrefixFolder == arrUri[2]
    IN  IF StartsWith(reqPrefixFolder, <<"wmt:">>)
        THEN [route |-> "WMT",
              result |-> akamaiWmt_getContentUrl(request.url.pathname, arrUri)]
        ELSE IF checkWatermarkPath(reqPrefixFolder)
        THEN LET removed == wmUtil_removeRevokeToken(arrUri)
                 modified == removed.modifiedArrUri
                 requestPath == <<"/">> \o Join(Tail(modified))
                 verified == doveRunnerAes_getContentUrl(requestPath, modified,
                                 reqPrefixFolder, removed.hasRevokeToken)
             IN  [route |-> "AES",
                  result |-> IF verified.ok THEN verified
                             ELSE Resolved(<<"/">> \o Join(<<reqPrefixFolder>>
                                      \o SubSeq(modified, 4, Len(modified))))]
        ELSE [route |-> "NONE", result |-> Resolved(<<>>)]

\* A classification that strips the revoke segment and drops the flag.
Classify_DropsRevokeFlag(request) ==
    LET arrUri == Split(request.url.pathname)
        reqPrefixFolder == arrUri[2]
    IN  IF StartsWith(reqPrefixFolder, <<"wmt:">>)
        THEN [route |-> "WMT",
              result |-> akamaiWmt_getContentUrl(request.url.pathname, arrUri)]
        ELSE IF checkWatermarkPath(reqPrefixFolder)
        THEN LET removed == wmUtil_removeRevokeToken(arrUri)
                 modified == removed.modifiedArrUri
                 requestPath == <<"/">> \o Join(Tail(modified))
             IN  [route |-> "AES",
                  result |-> doveRunnerAes_getContentUrl(requestPath, modified,
                                 reqPrefixFolder, FALSE)]
        ELSE [route |-> "NONE", result |-> Resolved(<<>>)]

\* Lines 201 to 227 of fetch: what finalRequestPath becomes.  kind is "path"
\* (resolved), "none" (no route: finalRequestPath stays undefined) or "error"
\* (the verifier threw).
Classify(request) ==
    LET arrUri == Split(request.url.pathname)
        reqPrefixFolder == arrUri[2]
    IN  IF StartsWith(reqPrefixFolder, <<"wmt:">>)
        THEN [route |-> "WMT",
              result |-> akamaiWmt_getContentUrl(request.url.pathname, arrUri)]
        ELSE IF checkWatermarkPath(reqPrefixFolder)
        THEN LET removed == wmUtil_removeRevokeToken(arrUri)
                 modified == removed.modifiedArrUri
                 requestPath == <<"/">> \o Join(Tail(modified))
             IN  [route |-> "AES",
                  result |-> doveRunnerAes_getContentUrl(requestPath, modified,
                                 reqPrefixFolder, removed.hasRevokeToken)]
        ELSE [route |-> "NONE", result |-> Resolved(<<>>)]

\* The verifier fetch calls on a route, as the operation trace names it.
VerifierOf(route) == IF route = "WMT" THEN "akamaiWmt" ELSE "doveRunnerAes"

---------------------------------------------------------------------------
\* State.

VARIABLES
    pc,            \* pc[r]: where handler r is: idle, lookup, fetch, done
    req,           \* req[r]: the request handler r serves
    path,          \* path[r]: finalRequestPath, None while undefined
    resp,          \* resp[r]: the response handler r returned, None before
    put,           \* put[r]: the cache.put handler r handed to ctx.waitUntil
    ops,           \* ops[r]: the operations handler r performed, in order
    lookedUp,      \* lookedUp[r]: the cache request handler r matched, if any
    cache,         \* caches.default: cache request -> stored entry
    reportsRange   \* whether the store reports a range on a whole-body get

vars == <<pc, req, path, resp, put, ops, lookedUp, cache, reportsRange>>

NoEntries == [k \in {} |-> 0]

Init ==
    /\ pc = [r \in Reqs |-> "idle"]
    /\ req = [r \in Reqs |-> NoRequest]
    /\ path = [r \in Reqs |-> None]
    /\ resp = [r \in Reqs |-> None]
    /\ put = [r \in Reqs |-> None]
    /\ ops = [r \in Reqs |-> <<>>]
    /\ lookedUp = [r \in Reqs |-> None]
    /\ cache = NoEntries
    /\ reportsRange \in BOOLEAN

\* The handler returns response.
Return(r, response) ==
    /\ resp' = [resp EXCEPT ![r] = Some(response)]
    /\ pc' = [pc EXCEPT ![r] = "done"]

---------------------------------------------------------------------------
\* The fetch handler, one action per stretch between two awaits on shared
\* state.

\* fetch is called with a request: the method check, the classification,
\* the verification, the 404/400/405 returns, the cache key and shouldCache.
\* The handlers are interchangeable, so one numbering of them is kept for
\* each set of overlapping requests: the one in which the requests are in
\* the order of RequestList.  They are called, and they finish, in any
\* order.
Receive(r) ==
    /\ pc[r] = "idle"
    /\ \E request \in Requests :
          /\ \A q \in Reqs :
                pc[q] # "idle" =>
                   /\ q < r => RequestIndex(req[q]) <= RequestIndex(request)
                   /\ q > r => RequestIndex(req[q]) >= RequestIndex(request)
          /\ req' = [req EXCEPT ![r] = request]
          /\ IF ~IsGetOrHead(request.method)
             THEN /\ Return(r, MethodNotAllowedResponse)
                  /\ UNCHANGED <<path, ops>>
             ELSE LET c == Classify(request)
                  IN  IF c.route = "NONE"
                      THEN /\ Return(r, NotFoundResponse)
                           /\ ops' = [ops EXCEPT ![r] = <<"classify">>]
                           /\ UNCHANGED path
                      ELSE IF ~c.result.ok
                      THEN /\ Return(r, ErrorResponse(c.result.message))
                           /\ ops' = [ops EXCEPT ![r] =
                                  <<"classify", VerifierOf(c.route)>>]
                           /\ UNCHANGED path
                      ELSE /\ path' = [path EXCEPT ![r] = Some(c.result.path)]
                           /\ ops' = [ops EXCEPT ![r] =
                                  <<"classify", VerifierOf(c.route)>>]
                           /\ pc' = [pc EXCEPT ![r] =
                                  IF shouldCache(request, c.result.path)
                                  THEN "lookup" ELSE "fetch"]
                           /\ UNCHANGED resp
    /\ UNCHANGED <<put, lookedUp, cache, reportsRange>>

\* A lookup whose hit is not returned: the handler goes on to fetch.
CacheLookup_FallsThrough(r) ==
    /\ pc[r] = "lookup"
    /\ pc' = [pc EXCEPT ![r] = "fetch"]
    /\ ops' = [ops EXCEPT ![r] = Append(@, "lookup")]
    /\ lookedUp' = [lookedUp EXCEPT ![r] =
           Some(CacheRequest(getCacheKey(req[r], Get(path[r]))))]
    /\ UNCHANGED <<resp, req, path, put, cache, reportsRange>>

\* await getFromCache(cacheKey): a hit is returned, a miss goes on to fetch.
CacheLookup(r) ==
    /\ pc[r] = "lookup"
    /\ LET cacheKey == getCacheKey(req[r], Get(path[r]))
           cachedResponse == getFromCache(cacheKey, cache)
       IN  IF Has(cachedResponse)
           THEN Return(r, HitResponse(req[r], Get(cachedResponse)))
           ELSE /\ pc' = [pc EXCEPT ![r] = "fetch"]
                /\ UNCHANGED resp
    /\ ops' = [ops EXCEPT ![r] = Append(@, "lookup")]
    /\ lookedUp' = [lookedUp EXCEPT ![r] =
           Some(CacheRequest(getCacheKey(req[r], Get(path[r]))))]
    /\ UNCHANGED <<req, path, put, cache, reportsRange>>

\* cache.match rejects: the catch block answers 400.
CacheLookupError(r) ==
    /\ pc[r] = "lookup"
    /\ Return(r, ErrorResponse("cache match failed"))
    /\ ops' = [ops EXCEPT ![r] = Append(@, "lookup")]
    /\ lookedUp' = [lookedUp EXCEPT ![r] =
           Some(CacheRequest(getCacheKey(req[r], Get(path[r]))))]
    /\ UNCHANGED <<req, path, put, cache, reportsRange>>

\* await generateResponse(...), then the store in the cache and the return.
Fetch(r) ==
    /\ pc[r] = "fetch"
    /\ LET finalRequestPath == Get(path[r])
           cacheKey == getCacheKey(req[r], finalRequestPath)
           response == generateResponse(finalRequestPath, req[r].headers,
                                        reportsRange)
       IN  IF shouldCache(req[r], finalRequestPath) /\ response.status = 200
           THEN LET stored == storeInCache(cacheKey,
                                  ResponseToStore(req[r], response))
                IN  /\ put' = [put EXCEPT ![r] =
                           IF Has(stored)
                           THEN Some([state |-> "pending",
                                      request |-> Get(stored).request,
                                      response |-> Get(stored).response])
                           ELSE None]
                    /\ ops' = [ops EXCEPT ![r] =
                           IF Has(stored)
                           THEN @ \o <<GetOp(req[r].headers), "put">>
                           ELSE Append(@, GetOp(req[r].headers))]
                    /\ Return(r, MissResponse(req[r], response))
           ELSE /\ Return(r, PlainResponse(req[r], response))
                /\ ops' = [ops EXCEPT ![r] = Append(@, GetOp(req[r].headers))]
                /\ UNCHANGED put
    /\ UNCHANGED <<req, path, lookedUp, cache, reportsRange>>

\* A get that is tried again when it rejects.
FetchError_Retries(r) ==
    /\ pc[r] = "fetch"
    /\ ops' = [ops EXCEPT ![r] = Append(@, GetOp(req[r].headers))]
    /\ UNCHANGED <<pc, resp, req, path, put, lookedUp, cache, reportsRange>>

\* env.FWM_BUCKER.get rejects: the catch block answers 400.
FetchError(r) ==
    /\ pc[r] = "fetch"
    /\ Return(r, ErrorResponse("bucket get failed"))
    /\ ops' = [ops EXCEPT ![r] = Append(@, GetOp(req[r].headers))]
    /\ UNCHANGED <<req, path, put, lookedUp, cache, reportsRange>>

---------------------------------------------------------------------------
\* The platform: the cache.put promises held by ctx.waitUntil, and the
\* cache's own expiry.

\* The entry a completed put leaves in the cache: the response, and the
\* method and Range header of the request whose handler put it.
Entry(r) ==
    [response |-> Get(put[r]).response,
     by |-> [method |-> req[r].method, range |-> req[r].headers.range]]

\* A pending cache.put completes: the entry replaces any under its key.
PutComplete(r) ==
    /\ Has(put[r])
    /\ Get(put[r]).state = "pending"
    /\ LET k == Get(put[r]).request
       IN  cache' = [x \in DOMAIN cache \cup {k} |->
                        IF x = k THEN Entry(r) ELSE cache[x]]
    /\ put' = [put EXCEPT ![r] = Some([Get(@) EXCEPT !.state = "stored"])]
    /\ UNCHANGED <<pc, req, path, resp, ops, lookedUp, reportsRange>>

\* A cache.put that is awaited inside the try block: its rejection is
\* caught and answered 400.
PutFail_Surfaces(r) ==
    /\ Has(put[r])
    /\ Get(put[r]).state = "pending"
    /\ put' = [put EXCEPT ![r] = Some([Get(@) EXCEPT !.state = "failed"])]
    /\ resp' = [resp EXCEPT ![r] = Some(ErrorResponse("cache put failed"))]
    /\ UNCHANGED <<pc, req, path, ops, lookedUp, cache, reportsRange>>

\* A pending cache.put rejects: nobody awaits it.
PutFail(r) ==
    /\ Has(put[r])
    /\ Get(put[r]).state = "pending"
    /\ put' = [put EXCEPT ![r] = Some([Get(@) EXCEPT !.state = "failed"])]
    /\ UNCHANGED <<pc, req, path, resp, ops, lookedUp, cache, reportsRange>>

\* An entry expires (max-age) or is evicted.
Evict(k) ==
    /\ k \in DOMAIN cache
    /\ cache' = [x \in DOMAIN cache \ {k} |-> cache[x]]
    /\ UNCHANGED <<pc, req, path, resp, put, ops, lookedUp, reportsRange>>

Next ==
    \/ \E r \in Reqs : Receive(r)
    \/ \E r \in Reqs : CacheLookup(r)
    \/ \E r \in Reqs : CacheLookupError(r)
    \/ \E r \in Reqs : Fetch(r)
    \/ \E r \in Reqs : FetchError(r)
    \/ \E r \in Reqs : PutComplete(r)
    \/ \E r \in Reqs : PutFail(r)
    \/ \E k \in DOMAIN cache : Evict(k)

Spec == Init /\ [][Next]_vars

---------------------------------------------------------------------------
\* Vocabulary of the properties.

Done(r) == pc[r] = "done" /\ Has(resp[r])

\* The response handler r returned.
Resp(r) == Get(resp[r])

\* The object the bucket holds for handler r's resolved path.
ObjectOf(r) == Bucket(Tail(Get(path[r])))

\* The path has one of the configured cacheable extensions.
HasCacheableExtension(p) ==
    \/ EndsWith(p, <<".m3u8">>) \/ EndsWith(p, <<".ts">>) \/ EndsWith(p, <<".mp4">>)
    \/ EndsWith(p, <<".m4s">>) \/ EndsWith(p, <<".mpd">>)

IsHit(r) == Done(r) /\ Resp(r).headers.xCacheStatus = Some("HIT")

IsMiss(r) == Done(r) /\ Resp(r).headers.xCacheStatus = Some("MISS")

---------------------------------------------------------------------------
\* What C1 asks of a stored response and its key.
C1_StorableEntry(key, response) ==
    /\ response.status = 200
    /\ HasCacheableExtension(key.url)
    /\ response.headers.cacheControl = Some(<<"public, max-age=", 3600>>)

\* C1: every entry of the edge cache, and every entry handed to cache.put,
\* has status 200, a key ending with a cacheable extension, was stored by a
\* request without a Range header, and has Cache-Control exactly
\* "public, max-age=<ttl>"; a request answered 206, 304, 404 or 400 (or
\* anything but 200) has handed nothing to cache.put.
C1_OnlyCacheableStored ==
    /\ \A k \in DOMAIN cache :
          /\ C1_StorableEntry(k, cache[k].response)
          /\ cache[k].by.range = None
    /\ \A r \in Reqs :
          /\ Has(put[r]) =>
                /\ C1_StorableEntry(Get(put[r]).request, Get(put[r]).response)
                /\ req[r].headers.range = None
          /\ Done(r) /\ Resp(r).status # 200 => ~Has(put[r])

\* An entry is in the cache for an object whose stored metadata carries its
\* own Cache-Control (no-store), and another request was answered 304.
C1_Witness ==
    /\ \E k \in DOMAIN cache :
          /\ k.url = Origin1 \o <<"/">> \o Key1
          /\ Has(Object1.httpMetadata.cacheControl)
    /\ \E r \in Reqs : Done(r) /\ Resp(r).status = 304

---------------------------------------------------------------------------
\* Handler r's request is conditional on the ETag the stored object has.
C2_ConditionalMatch(r) ==
    /\ Has(path[r])
    /\ Has(ObjectOf(r))
    /\ req[r].headers.ifNoneMatch = Some(Get(ObjectOf(r)).httpEtag)

\* C2: a GET or HEAD request whose If-None-Match equals the ETag of the
\* object stored for its resolved path is answered 304 without a body,
\* whether or not the edge cache holds an entry for the path.  (Requests
\* answered 400 because the platform failed are left aside.)
C2_ConditionalAlways304 ==
    \A r \in Reqs :
        Done(r) /\ C2_ConditionalMatch(r) /\ Resp(r).status # 400
            => Resp(r).status = 304 /\ Resp(r).body = <<>>

---------------------------------------------------------------------------
\* C3: every response to a GET or HEAD request whose resolved path has a
\* cacheable extension and that carries no Range header has an
\* X-Cache-Status header of HIT or MISS, whatever its status.  (Requests
\* answered 400 because the platform failed are left aside.)
C3_CacheStatusOnEveryCacheablePath ==
    \A r \in Reqs :
        /\ Done(r)
        /\ Has(path[r])
        /\ HasCacheableExtension(Get(path[r]))
        /\ req[r].headers.range = None
        /\ Resp(r).status # 400
        => Resp(r).headers.xCacheStatus \in {Some("HIT"), Some("MISS")}

---------------------------------------------------------------------------
\* A response marked MISS was handed, whole body included, to cache.put
\* under origin + resolved path.
C4_MissIsStored ==
    \A r \in Reqs :
        IsMiss(r) =>
            /\ Has(put[r])
            /\ Get(put[r]).request.url = req[r].url.origin \o Get(path[r])
            /\ Get(put[r]).response.status = 200
            /\ Get(put[r]).response.body = Get(ObjectOf(r)).body

\* A response marked HIT is a 200 with the bytes of the stored object.
C4_HitHasOriginBody ==
    \A r \in Reqs :
        IsHit(r) =>
            /\ Resp(r).status = 200
            /\ Resp(r).body =
                  IF req[r].method = "HEAD" THEN <<>> ELSE Get(ObjectOf(r)).body

\* A lookup that finds the entry stored for its key answers HIT with it.
C4_LookupOfStoredEntryHits ==
    \A r \in Reqs :
        LET k == [method |-> "GET", url |-> req[r].url.origin \o Get(path[r])]
        IN  (pc[r] = "lookup" /\ k \in DOMAIN cache /\ pc'[r] # "lookup")
            => /\ pc'[r] = "done"
               /\ Has(resp'[r])
               /\ \/ Get(resp'[r]).status = 400
                  \/ /\ Get(resp'[r]).headers.xCacheStatus = Some("HIT")
                     /\ Get(resp'[r]).body =
                           IF req[r].method = "HEAD" THEN <<>>
                           ELSE cache[k].response.body

\* C4: a request for a cacheable path without a Range header that gets a 200
\* from the object store hands that response, whole body included, to
\* cache.put under its key; a request whose lookup finds the entry in the
\* cache is answered X-Cache-Status: HIT, status 200, with the stored body
\* (dropped for HEAD), which is the body of the object in the store; and a
\* HIT is only ever answered with that body.
C4_StoredThenHit ==
    /\ [](C4_MissIsStored /\ C4_HitHasOriginBody)
    /\ [][C4_LookupOfStoredEntryHits]_vars

\* A GET of .../s.ts missed and its put completed; the identical request,
\* sent again, was answered HIT with the same bytes.
C4_Witness ==
    \E r1, r2 \in Reqs :
        /\ r1 # r2
        /\ req[r1] = Request("GET", UrlAes, None, None)
        /\ req[r2] = req[r1]
        /\ IsMiss(r1)
        /\ Has(put[r1]) /\ Get(put[r1]).state = "stored"
        /\ IsHit(r2)
        /\ Resp(r2).body = Resp(r1).body
        /\ Resp(r2).body = Object1.body

---------------------------------------------------------------------------
\* C5: a GET or HEAD request that carries a Range header performs no cache
\* lookup and no cache store, whatever the cache holds: it matched no cache
\* request, handed nothing to cache.put, no entry of the cache was put by
\* it, and its response is the one generateResponse builds from the object
\* store, without X-Cache-Status.
C5_RangeBypassesCache ==
    /\ \A r \in Reqs :
          (req[r].method \in {"GET", "HEAD"} /\ req[r].headers.range # None)
          => /\ lookedUp[r] = None
             /\ put[r] = None
             /\ \A i \in 1..Len(ops[r]) : ops[r][i] \notin {"lookup", "put"}
             /\ (Done(r) /\ Has(path[r]) /\ Resp(r).status # 400)
                => /\ Resp(r).headers.xCacheStatus = None
                   /\ Resp(r) = PlainResponse(req[r],
                         generateResponse(Get(path[r]), req[r].headers,
                                          reportsRange))
    /\ \A k \in DOMAIN cache : cache[k].by.range = None

\* A range request for .../s.ts was answered 206 with bytes 1-2 of the
\* object while the cache held the entry of its resolved path.
C5_Witness ==
    \E r \in Reqs :
        /\ req[r] = Request("GET", UrlAes, RangeBytes, None)
        /\ Done(r)
        /\ Resp(r).status = 206
        /\ Resp(r).body = <<"b1", "b2">>
        /\ [method |-> "GET", url |-> Origin1 \o Get(path[r])] \in DOMAIN cache

---------------------------------------------------------------------------
\* The cache requests handler r has used: the one matched, the one put.
C6_KeyUsed(r) ==
    lookedUp[r] \cup (IF Has(put[r]) THEN {Get(put[r]).request} ELSE {})

\* C6: the cache request a handler matches or puts has the URL
\* origin + resolvedPath; two handlers use the same cache request exactly
\* when their origins and their resolved paths are equal (whatever their
\* request URLs); and a HIT serves the object of the handler's own path.
C6_KeyIsOriginPlusPath ==
    /\ \A r \in Reqs : \A k \in C6_KeyUsed(r) :
          k.url = req[r].url.origin \o Get(path[r])
    /\ \A r1, r2 \in Reqs : \A k1 \in C6_KeyUsed(r1) : \A k2 \in C6_KeyUsed(r2) :
          (k1 = k2) <=> /\ req[r1].url.origin = req[r2].url.origin
                        /\ path[r1] = path[r2]
    /\ \A r \in Reqs :
          IsHit(r) => Resp(r).headers.etag = Some(Get(ObjectOf(r)).httpEtag)

\* The entry stored by a request on the AES route was served as a HIT to a
\* request on the WMT route whose different URL resolves to the same path.
C6_Witness ==
    \E r1, r2 \in Reqs :
        /\ req[r1] = Request("GET", UrlAes, None, None)
        /\ req[r2] = Request("GET", UrlWmt, None, None)
        /\ Has(put[r1]) /\ Get(put[r1]).state = "stored"
        /\ IsHit(r2)
        /\ lookedUp[r2] = Some(Get(put[r1]).request)
        /\ Resp(r2).body = Object1.body

---------------------------------------------------------------------------
\* C7: whenever a handler has handed a put to ctx.waitUntil, it has already
\* returned its response, and that response is the 200 MISS response built
\* from the object store whether the put is pending, has stored or has
\* failed.
C7_FireAndForget ==
    \A r \in Reqs :
        Has(put[r]) =>
            /\ Done(r)
            /\ Get(put[r]).state \in {"pending", "stored", "failed"}
            /\ Resp(r).status = 200
            /\ Resp(r).headers.xCacheStatus = Some("MISS")
            /\ Resp(r).headers.etag = Some(Get(ObjectOf(r)).httpEtag)
            /\ Resp(r).body =
                  IF req[r].method = "HEAD" THEN <<>> ELSE Get(ObjectOf(r)).body

\* One handler's put failed and another's is still pending; both had
\* returned 200.
C7_Witness ==
    \E r1, r2 \in Reqs :
        /\ Has(put[r1]) /\ Get(put[r1]).state = "failed"
        /\ Has(put[r2]) /\ Get(put[r2]).state = "pending"
        /\ Resp(r1).status = 200
        /\ Resp(r2).status = 200

---------------------------------------------------------------------------
\* C8: every cache request matched, put or stored under has method GET,
\* whatever the method of the request; every entry, one put by a HEAD
\* request included, holds status 200 and the whole body of the object;
\* and a HIT gives a GET that body and a HEAD none.
C8_HeadSharesGetEntry ==
    /\ \A k \in DOMAIN cache :
          /\ k.method = "GET"
          /\ cache[k].response.status = 200
          /\ \E r \in Reqs :
                /\ Has(put[r]) /\ Get(put[r]).request = k
                /\ cache[k].response.body = Get(ObjectOf(r)).body
    /\ \A r \in Reqs :
          /\ \A k \in lookedUp[r] : k.method = "GET"
          /\ Has(put[r]) =>
                /\ Get(put[r]).request.method = "GET"
                /\ Get(put[r]).response.body = Get(ObjectOf(r)).body
          /\ IsHit(r) =>
                Resp(r).body =
                   IF req[r].method = "HEAD" THEN <<>> ELSE Get(ObjectOf(r)).body

\* An entry put by a HEAD request was served, body and all, to a GET.
C8_Witness ==
    \E r1, r2 \in Reqs : \E k \in DOMAIN cache :
        /\ req[r1].method = "HEAD"
        /\ Has(put[r1]) /\ Get(put[r1]).request = k
        /\ cache[k].by.method = "HEAD"
        /\ req[r2].method = "GET"
        /\ IsHit(r2)
        /\ lookedUp[r2] = Some(k)
        /\ Resp(r2).body = Object1.body

---------------------------------------------------------------------------
\* C9: every response the handler returns for a HEAD request has no body,
\* on every path through the handler.
C9_HeadHasNoBody ==
    \A r \in Reqs :
        Done(r) /\ req[r].method = "HEAD" => Resp(r).body = <<>>

---------------------------------------------------------------------------
\* C10: a request whose method is neither GET nor HEAD has been answered
\* 405 with Allow: GET, HEAD as soon as it is received, and has performed
\* no classification, verification, lookup, fetch or put: it resolved no
\* path, matched no cache request and handed nothing to cache.put.
C10_OtherMethods405 ==
    \A r \in Reqs :
        (req[r] # NoRequest /\ req[r].method \notin {"GET", "HEAD"})
        => /\ Done(r)
           /\ Resp(r).status = 405
           /\ Resp(r).headers.allow = Some("GET, HEAD")
           /\ ops[r] = <<>>
           /\ path[r] = None
           /\ lookedUp[r] = None
           /\ put[r] = None

\* A POST was answered 405 while the cache held an entry.
C10_Witness ==
    /\ \E r \in Reqs :
          /\ req[r].method = "POST"
          /\ Done(r)
          /\ Resp(r).status = 405
    /\ DOMAIN cache # {}

---------------------------------------------------------------------------
\* The first path segment of handler r's request URL.
FirstSegment(r) == Split(req[r].url.pathname)[2]

\* Handler r has been handed a GET or HEAD request.
Handling(r) == req[r] # NoRequest /\ req[r].method \in {"GET", "HEAD"}

\* Handler r called no verifier, matched nothing in the cache, got nothing
\* from the object store and put nothing.
C11_NothingAccessed(r) ==
    /\ ops[r] = <<"classify">>
    /\ path[r] = None
    /\ lookedUp[r] = None
    /\ put[r] = None

\* C11: the first path segment alone decides the route of a GET or HEAD
\* request: a segment starting with "wmt:" goes to the WMT verifier, even
\* when a later segment is a configured prefix folder; else a segment equal
\* to a configured prefix folder goes to the AES verifier; any other is
\* answered 404 "Not Found" with no verification, no cache access and no
\* object-store fetch.
C11_RoutingByFirstSegment ==
    \A r \in Reqs :
        Handling(r) =>
            IF StartsWith(FirstSegment(r), <<"wmt:">>)
            THEN /\ Len(ops[r]) >= 2
                 /\ ops[r][2] = "akamaiWmt"
                 /\ \A i \in 1..Len(ops[r]) : ops[r][i] # "doveRunnerAes"
            ELSE IF FirstSegment(r) \in {<<"dldzkdpsxmdnjrtm">>, <<"wm-contents">>}
            THEN /\ Len(ops[r]) >= 2
                 /\ ops[r][2] = "doveRunnerAes"
                 /\ \A i \in 1..Len(ops[r]) : ops[r][i] # "akamaiWmt"
            ELSE /\ Done(r)
                 /\ Resp(r).status = 404
                 /\ Resp(r).body = <<"Not Found">>
                 /\ C11_NothingAccessed(r)

\* A request under /other/ was answered 404 while the cache held an entry,
\* and a request whose first segment is wmt:jwtA and whose second is the
\* prefix folder wm-contents went to the WMT verifier.
C11_Witness ==
    \E r1, r2 \in Reqs :
        /\ req[r1] = Request("GET", UrlUnrouted, None, None)
        /\ Done(r1) /\ Resp(r1).status = 404
        /\ req[r2] = Request("GET", UrlWmt, None, None)
        /\ Split(req[r2].url.pathname)[3] \in prefixFolder
        /\ ops[r2][2] = "akamaiWmt"
        /\ DOMAIN cache # {}

---------------------------------------------------------------------------
\* Handler r's request is on the AES route and its URL has a revoke-token
\* segment.
C12_RevokedOnAesRoute(r) ==
    /\ Handling(r)
    /\ ~StartsWith(FirstSegment(r), <<"wmt:">>)
    /\ FirstSegment(r) \in prefixFolder
    /\ \E i \in 1..Len(Split(req[r].url.pathname)) :
          Split(req[r].url.pathname)[i] = RevokeMarker

\* C12: a request on the AES route whose URL has a revoke-token segment has
\* been answered 400 by the AES verifier's failure, whatever its token: the
\* verifier was the only operation after the classification, no path was
\* resolved, no cache request matched, nothing fetched and nothing put.
C12_RevokedAlwaysFails ==
    \A r \in Reqs :
        C12_RevokedOnAesRoute(r) =>
            /\ Done(r)
            /\ Resp(r).status = 400
            /\ ops[r] = <<"classify", "doveRunnerAes">>
            /\ path[r] = None
            /\ lookedUp[r] = None
            /\ put[r] = None

\* A request with a revoke segment before the valid token tokA was answered
\* 400 while the cache held the entry of the content it names.
C12_Witness ==
    \E r \in Reqs :
        /\ req[r] = Request("GET", UrlRevoked, None, None)
        /\ AesDecode(<<"tokA">>).ok
        /\ Done(r)
        /\ Resp(r).status = 400
        /\ CacheRequest(Origin1 \o <<"/">> \o Key1) \in DOMAIN cache

---------------------------------------------------------------------------
\* The last operation handler r performed.
LastOp(r) == ops[r][Len(ops[r])]

\* The 400 response that carries an error's message, and nothing else.
C13_ErrorWithMessage(message) == [status |-> 400, headers |-> NoHeaders,
                                  body |-> <<message>>]

\* C13: a GET or HEAD handler that ended on an error answered 400 with the
\* error's message as the body: the expired and the revoked token with the
\* verifier's message, a lookup that ended the handler without a hit with
\* the cache's, a get that ended it without the store's response with the
\* store's.  A handler that answered 400 handed nothing to cache.put, and
\* every entry of the cache was put by a handler that answered 200.
C13_ErrorsSurfaceAs400 ==
    /\ \A r \in Reqs :
          Handling(r) /\ Done(r) =>
             /\ req[r].url = UrlExpired
                   => Resp(r) = C13_ErrorWithMessage("TokenExpired")
             /\ req[r].url = UrlRevoked
                   => Resp(r) = C13_ErrorWithMessage("TokenRevoked")
             /\ (Has(path[r]) /\ LastOp(r) = "lookup" /\ ~IsHit(r))
                   => Resp(r) = C13_ErrorWithMessage("cache match failed")
             /\ (/\ Has(path[r])
                 /\ LastOp(r) \in {"get", "getRange"}
                 /\ Resp(r) # PlainResponse(req[r],
                        generateResponse(Get(path[r]), req[r].headers,
                                         reportsRange)))
                   => Resp(r) = C13_ErrorWithMessage("bucket get failed")
             /\ Resp(r).status = 400 => put[r] = None
    /\ \A k \in DOMAIN cache :
          \E r \in Reqs :
             /\ Has(put[r])
             /\ Get(put[r]).request = k
             /\ Get(put[r]).state = "stored"
             /\ Resp(r).status = 200

\* The cache held the entry a first request stored; the lookup of a second
\* request for it failed and was answered 400 with the message, the entry
\* being as the first request stored it.
C13_Witness ==
    \E r1, r2 \in Reqs :
        /\ r1 # r2
        /\ req[r1] = Request("GET", UrlAes, None, None)
        /\ req[r2] = Request("HEAD", UrlAes, None, None)
        /\ Has(put[r1]) /\ Get(put[r1]).state = "stored"
        /\ Done(r2)
        /\ LastOp(r2) = "lookup"
        /\ Resp(r2) = C13_ErrorWithMessage("cache match failed")
        /\ Get(put[r1]).request \in DOMAIN cache
        /\ cache[Get(put[r1]).request].response = Get(put[r1]).response

---------------------------------------------------------------------------
\* Handler r has called the object store's get.
Fetched(r) == \E i \in 1..Len(ops[r]) : ops[r][i] \in {"get", "getRange"}

\* Handler r's get carried the range option.
PassedRange(r) == \E i \in 1..Len(ops[r]) : ops[r][i] = "getRange"

\* C14 as claimed: the get of a handler carries the range option if and
\* only if its request has a Range header, and a request without a Range
\* header is never answered 206.
C14_RangeOptionIffHeader ==
    \A r \in Reqs :
        /\ Fetched(r) => (PassedRange(r) <=> req[r].headers.range # None)
        /\ (Done(r) /\ req[r].headers.range = None) => Resp(r).status # 206

\* C14, amended: the get of a handler carries the range option if and only
\* if its request has a Range header whose value is not empty; a request
\* without a Range header, or with an empty one, is never answered 206,
\* also when the store reports a range on the object it returns.
C14_RangeOptionIffNonEmptyHeader ==
    \A r \in Reqs :
        /\ Fetched(r) =>
              (PassedRange(r) <=>
                  (req[r].headers.range # None /\ req[r].headers.range # Some(<<>>)))
        /\ (Done(r) /\ req[r].headers.range \in {None, Some(<<>>)})
              => Resp(r).status # 206

\* The store reports a range on whole bodies; a request without a Range
\* header fetched without the range option and was answered 200 with the
\* whole body, and a range request fetched with it and was answered 206.
C14_Witness ==
    /\ reportsRange
    /\ \E r1, r2 \in Reqs :
          /\ req[r1] = Request("GET", UrlAes, None, None)
          /\ Fetched(r1) /\ ~PassedRange(r1)
          /\ Done(r1) /\ Resp(r1).status = 200
          /\ Resp(r1).body = Object1.body
          /\ req[r2] = Request("GET", UrlAes, RangeBytes, None)
          /\ PassedRange(r2)
          /\ Done(r2) /\ Resp(r2).status = 206

---------------------------------------------------------------------------
\* The Content-Range of the range handler r's request asks of the object of
\* its path: first and last byte kept inside the object, and its size.
C15_ExpectedContentRange(r) ==
    LET hdr  == Get(req[r].headers.range)
        size == Len(Get(ObjectOf(r)).body)
    IN  <<"bytes ", Min(hdr[2], size - 1), "-", Min(hdr[4], size - 1), "/", size>>

\* The store honoured a range for handler r: the get carried the range
\* option and returned the object of the path with a body.
C15_RangeHonoured(r) ==
    /\ Done(r)
    /\ PassedRange(r)
    /\ Has(ObjectOf(r))
    /\ Resp(r).status \notin {304, 400}

\* C15: a response for which the store honoured a range has status 206 and
\* the Content-Range "bytes <first>-<last>/<size>" of that range, and a
\* response has a Content-Range header only when its status is 206.
C15_ContentRangeOnlyOn206 ==
    \A r \in Reqs :
        /\ C15_RangeHonoured(r) =>
              /\ Resp(r).status = 206
              /\ Resp(r).headers.contentRange = Some(C15_ExpectedContentRange(r))
        /\ (Done(r) /\ Resp(r).headers.contentRange # None)
              => Resp(r).status = 206

---------------------------------------------------------------------------
\* The Content-Type of the extension table, as a set of (extension, type).
C16_ExtensionTable ==
    {<<".m3u8", "application/vnd.apple.mpegurl">>, <<".ts", "video/mp2t">>,
     <<".mp4", "video/mp4">>, <<".m4s", "video/iso.segment">>,
     <<".mpd", "application/dash+xml">>}

\* C16: every response of status 200, 206 or 304, from the object store or
\* from the cache, has the ETag of the store's object for the resolved
\* path, Access-Control-Allow-Origin: *, and, when the path ends with an
\* extension of the table, the Content-Type the table gives it (whatever
\* the object's stored metadata say); the table is the one of the spec.
C16_SuccessHeaders ==
    /\ \A r \in Reqs :
          (Done(r) /\ Resp(r).status \in {200, 206, 304}) =>
             /\ Has(path[r]) /\ Has(ObjectOf(r))
             /\ Resp(r).headers.etag = Some(Get(ObjectOf(r)).httpEtag)
             /\ Resp(r).headers.acao = Some("*")
             /\ \A e \in C16_ExtensionTable :
                   EndsWith(Get(path[r]), <<e[1]>>)
                      => Resp(r).headers.contentType = Some(e[2])
    /\ \A e \in C16_ExtensionTable :
          getContentType(<<"v", "/", "f", e[1]>>) = Some(e[2])

\* A HIT served from the cache has the ETag of the object, the CORS header
\* and video/mp2t, the object's own metadata saying another type.
C16_Witness ==
    \E r \in Reqs :
        /\ IsHit(r)
        /\ Get(path[r]) = <<"/">> \o Key1
        /\ Object1.httpMetadata.contentType # Some("video/mp2t")
        /\ Has(Object1.httpMetadata.contentType)
        /\ Resp(r).headers.etag = Some("e1")
        /\ Resp(r).headers.acao = Some("*")
        /\ Resp(r).headers.contentType = Some("video/mp2t")

---------------------------------------------------------------------------
\* How many operations of the kinds in S handler r has performed.
C17_Count(r, S) == Cardinality({i \in 1..Len(ops[r]) : ops[r][i] \in S})

\* Every handler has performed at most one verification, one cache lookup,
\* one object-store get and one cache put; a handler that answered 400
\* stopped at the step that failed.
C17_AtMostOnce ==
    \A r \in Reqs :
        /\ C17_Count(r, {"akamaiWmt", "doveRunnerAes"}) <= 1
        /\ C17_Count(r, {"lookup"}) <= 1
        /\ C17_Count(r, {"get", "getRange"}) <= 1
        /\ C17_Count(r, {"put"}) <= 1
        /\ (Done(r) /\ Resp(r).status = 400) =>
              /\ put[r] = None
              /\ LastOp(r) \in {"akamaiWmt", "doveRunnerAes", "lookup",
                                "get", "getRange"}
        /\ pc[r] = "done" <=> Has(resp[r])

\* A handler that has returned does nothing more: its response and its
\* operations stay as they are, and a put that failed is not put again.
C17_ReturnedIsFinal ==
    \A r \in Reqs :
        /\ pc[r] = "done" =>
              /\ pc'[r] = "done"
              /\ resp'[r] = resp[r]
              /\ ops'[r] = ops[r]
        /\ (Has(put[r]) /\ Get(put[r]).state = "failed") => put'[r] = put[r]

\* C17: no retries.  Every request is answered once, after at most one
\* token verification, one cache lookup, one object-store get and one
\* cache put; a step that failed is answered 400 at once and not attempted
\* again.
C17_NoRetries == []C17_AtMostOnce /\ [][C17_ReturnedIsFinal]_vars

\* One handler's get failed and was answered 400 after a single get;
\* another's put failed after its 200.
C17_Witness ==
    \E r1, r2 \in Reqs :
        /\ Done(r1)
        /\ Resp(r1) = C13_ErrorWithMessage("bucket get failed")
        /\ C17_Count(r1, {"get", "getRange"}) = 1
        /\ Has(put[r2]) /\ Get(put[r2]).state = "failed"
        /\ C17_Count(r2, {"put"}) = 1

---------------------------------------------------------------------------
\* A handler answered from the cache ended at its lookup: it called no get
\* and put nothing; a handler that called get after a lookup was not
\* answered from the cache.
C18_HitDidNotFetch ==
    \A r \in Reqs :
        /\ IsHit(r) =>
              /\ LastOp(r) = "lookup"
              /\ ~Fetched(r)
              /\ put[r] = None
        /\ Fetched(r) => ~IsHit(r)

\* A lookup that finds an entry under the handler's key ends the handler
\* there: the response is the entry's status, headers and body (HIT marked,
\* the body dropped for HEAD) or the 400 of a failed match, the lookup is
\* the last operation and nothing is put.
C18_LookupHitStopsThere ==
    \A r \in Reqs :
        LET k == CacheRequest(req[r].url.origin \o Get(path[r]))
        IN  (pc[r] = "lookup" /\ k \in DOMAIN cache /\ pc'[r] # pc[r])
            => /\ pc'[r] = "done"
               /\ ops'[r] = Append(ops[r], "lookup")
               /\ put'[r] = None
               /\ resp'[r] \in
                     {Some(C13_ErrorWithMessage("cache match failed")),
                      Some([status |-> cache[k].response.status,
                            headers |-> [cache[k].response.headers EXCEPT
                                            !.xCacheStatus = Some("HIT")],
                            body |-> IF req[r].method = "HEAD" THEN <<>>
                                     ELSE cache[k].response.body])}

\* C18: the object store is queried only after a cache miss or for a
\* request that is not cacheable: when the lookup of a cacheable request
\* finds an entry, the response is built from that entry alone, no get is
\* called and nothing is put by that request.
C18_StoreOnlyOnMiss == []C18_HitDidNotFetch /\ [][C18_LookupHitStopsThere]_vars

\* A request conditional on the object's ETag was answered from the cache,
\* with the entry's 200 and body, after a classification, a verification
\* and a lookup, the store not asked.
C18_Witness ==
    \E r1, r2 \in Reqs :
        /\ Has(put[r1]) /\ Get(put[r1]).state = "stored"
        /\ req[r2] = Request("GET", UrlAes, None, Some("e1"))
        /\ IsHit(r2)
        /\ ops[r2] = <<"classify", "doveRunnerAes", "lookup">>
        /\ Resp(r2).status = 200
        /\ Resp(r2).body = Get(put[r1]).response.body

---------------------------------------------------------------------------
\* The bodies of the objects of the store, whole or in part.
C19_MediaBodies ==
    UNION {{SubSeq(o.body, i, j) : i, j \in 1..Len(o.body)} :
              o \in {Object1, Object2, Object3}} \ {<<>>}

\* The token of handler r's request is expired or revoked.
C19_BadToken(r) == req[r].url \in {UrlExpired, UrlRevoked}

\* C19: a cache lookup, an object-store get or a cache put of a handler
\* comes after the classification and the token verification of that same
\* handler, which produced its resolved path; a handler without a resolved
\* path matched no cache request, got nothing and put nothing, and its
\* response has no media body; a request with an expired or a revoked
\* token resolves no path and is answered 400 without media, whatever the
\* cache holds.
C19_VerifiedBeforeAccess ==
    \A r \in Reqs :
        /\ \A i \in 1..Len(ops[r]) :
              ops[r][i] \in {"lookup", "get", "getRange", "put"} =>
                 /\ i > 2
                 /\ ops[r][1] = "classify"
                 /\ ops[r][2] \in {"akamaiWmt", "doveRunnerAes"}
                 /\ Has(path[r])
        /\ (Has(lookedUp[r]) \/ Has(put[r])) => Has(path[r])
        /\ (Done(r) /\ path[r] = None) =>
              /\ Resp(r).status \in {400, 404, 405}
              /\ Resp(r).body \notin C19_MediaBodies
        /\ C19_BadToken(r) =>
              /\ path[r] = None
              /\ Done(r)
              /\ Resp(r).status = 400
              /\ ops[r] = <<"classify", "doveRunnerAes">>

\* A request with an expired token for content the cache holds was
\* answered 400 with the verifier's message and none of the content.
C19_Witness ==
    \E r \in Reqs :
        /\ req[r] = Request("GET", UrlExpired, None, None)
        /\ Done(r)
        /\ Resp(r).body = <<"TokenExpired">>
        /\ CacheRequest(Origin1 \o <<"/">> \o Key1) \in DOMAIN cache
        /\ cache[CacheRequest(Origin1 \o <<"/">> \o Key1)].response.body
              = Object1.body

---------------------------------------------------------------------------
\* The resolved path P of a cache request whose URL is origin + P.
C20_PathOf(k) == SubSeq(k.url, Len(Origin1) + 1, Len(k.url))

\* What C20 asks of a response stored, or about to be, under cache request
\* k: the whole body and the ETag of the store's object at key P without
\* its leading slash, and no X-Cache-Status.
C20_EntryIsObject(k, response) ==
    LET object == Bucket(Tail(C20_PathOf(k)))
    IN  /\ Has(object)
        /\ response.body = Get(object).body
        /\ response.headers.etag = Some(Get(object).httpEtag)
        /\ response.headers.xCacheStatus = None

\* C20: under every interleaving of the handlers and of their puts, every
\* entry of the cache and every put in flight holds, under origin + P, the
\* whole body and the ETag of the store's object at P and no X-Cache-Status
\* header; a response marked HIT was built at a cache lookup without a get,
\* and a response marked MISS was built from the store's get and has the
\* object's body.
C20_EntriesAreStoreObjects ==
    /\ \A k \in DOMAIN cache :
          /\ k.url \in {Origin1 \o C20_PathOf(k), Origin2 \o C20_PathOf(k)}
          /\ C20_EntryIsObject(k, cache[k].response)
    /\ \A r \in Reqs :
          /\ Has(put[r]) =>
                C20_EntryIsObject(Get(put[r]).request, Get(put[r]).response)
          /\ IsHit(r) => (LastOp(r) = "lookup" /\ ~Fetched(r))
          /\ IsMiss(r) =>
                /\ Fetched(r)
                /\ C17_Count(r, {"lookup"}) = 1
                /\ Resp(r).headers.etag = Some(Get(ObjectOf(r)).httpEtag)
                /\ Resp(r).body = IF req[r].method = "HEAD" THEN <<>>
                                  ELSE Get(ObjectOf(r)).body

\* Two requests for the same path both missed, both fetched and both put,
\* a HEAD and a GET; both puts completed, and the entry is the object.
C20_Witness ==
    \E r1, r2 \in Reqs :
        /\ r1 # r2
        /\ req[r1].method = "HEAD" /\ req[r2].method = "GET"
        /\ path[r1] = path[r2]
        /\ IsMiss(r1) /\ IsMiss(r2)
        /\ Has(put[r1]) /\ Get(put[r1]).state = "stored"
        /\ Has(put[r2]) /\ Get(put[r2]).state = "stored"
        /\ Get(put[r1]).request = Get(put[r2]).request
        /\ cache[Get(put[r1]).request].by.method = "HEAD"
        /\ cache[Get(put[r1]).request].response.body = Object1.body

=============================================================================
